---- MODULE Spec2Model ----
(***************************************************************************)
(* Pagination driver and crawl state of the marches-publics scraper.       *)
(*                                                                         *)
(* Two programs of the repository drive the same crawl loop:               *)
(*   - the command line driver, run() of src/main.py, with fetch_page of   *)
(*     src/fetch.py and the state file state.json;                         *)
(*   - the API service, ScraperService.scrape_pages of                     *)
(*     src/full_backend/app/services/scraper.py, started by the routes of  *)
(*     src/full_backend/app/api/routes/scraper.py as coroutines of one     *)
(*     event loop, with the state file scraper_state.json.                 *)
(* The variable program says which of the two a behaviour executes.        *)
(*                                                                         *)
(* Of the state file the model keeps the keys the crawl and get_status     *)
(* read: current_page, prado_state, last_run, total_pages.  PUT /config    *)
(* and POST /schedule add other keys and leave these four as they are.     *)
(*                                                                         *)
(* Encoding of Python values: the None of an Optional[int] is None (-1),   *)
(* an absent or empty pagination token is NoToken (0), a key missing from  *)
(* the state file is 0 for current_page and NoToken for prado_state.       *)
(***************************************************************************)
EXTENDS Integers, Sequences, FiniteSets, TLC

\* ---------------------------------------------------------------- bounds
\* Highest page number the model requests (caps the page counter).
MaxPage == 2
\* Pagination tokens the server hands out are 1..MaxToken.
MaxToken == 2
\* Most announcements extracted from one page.
MaxRows == 1
\* Consultation links are 1..MaxLien, references 1..MaxRef, publication dates
\* 1..MaxDate, subjects 1..MaxObjet.
MaxLien == 1
MaxRef == 2
MaxDate == 1
MaxObjet == 2
\* Most announcements in one batch handed to the ingestion operation.
MaxBatch == 2
\* Calls of the ingestion operation in one behaviour.
MaxCalls == 2

\* ------------------------------------------------------- program constants
None == -1
NoToken == 0
max_retries == 3
SCRAPER_MAX_RETRIES == 3
default_start_page == 1

CLI == 1
Tasks == {1, 2}

\* ------------------------------------------------------------ input classes
\* max_pages / pages arguments: absent, zero (false in Python), one page.
PagesArgs == {None, 0, 1}
\* start_page arguments of /start: zero (false in Python) and the default.
StartArgs == {0, 1}
\* totalPages inputs of the initial page: absent, or a listing of one page.
TotalPages == {None, 1}

\* ------------------------------------------------------------ Python idiom
\* Truth value of an Optional[int]: None and 0 are false.
Truthy(x) == x # None /\ x # 0

\* Python `a or b` on Optional[int].
PyOr(a, b) == IF Truthy(a) THEN a ELSE b

\* -------------------------------------------------------- page and server
NoTree == [token |-> NoToken, rows |-> 0, total |-> None]

\* What one successful response can contain: the PRADO token input (or none),
\* the number of rows the extractor returns, the totalPages input (or none).
Responses == [token : 0..MaxToken, rows : 0..MaxRows, total : TotalPages]

\* The totalPages input is read on the initial page alone.
ResponseTo(pc, r) == pc = "init_req" \/ r.total = None

extract_prado_state(tree) == tree.token

\* The request fetch_page sends: a GET without token for page 1, otherwise a
\* POST carrying PRADO_PAGESTATE = prado_state or "".
Request(page_num, prado_state) ==
    [page |-> page_num,
     token |-> IF page_num = 1 THEN NoToken ELSE prado_state]

NoRequest == [page |-> 0, token |-> NoToken]

\* ------------------------------------------------------------ crawl state
EmptyState == [current_page |-> 0, prado_state |-> NoToken,
               last_run |-> FALSE, total_pages |-> None]

\* state.get("current_page", start_page)
StateCurrentPage(state, start_page) ==
    IF state.current_page # 0 THEN state.current_page ELSE start_page

\* main.py: token carried after the initial fetch.
InitialToken_run(tree, persisted) == extract_prado_state(tree)

\* scraper.py: extract_prado_state(tree) or prado_state
InitialToken_scrape(tree, persisted) ==
    IF extract_prado_state(tree) # NoToken THEN extract_prado_state(tree) ELSE persisted

UpdateToken_dropped(new_prado_state, prado_state) == new_prado_state

\* if new_prado_state: prado_state = new_prado_state
UpdateToken(new_prado_state, prado_state) ==
    IF new_prado_state # NoToken THEN new_prado_state ELSE prado_state

AttemptsLeft_more(attempt, limit) == attempt <= limit

\* fetch_page: `for attempt in range(1, max_retries + 1)` has a next iteration.
AttemptsLeft(attempt, limit) == attempt < limit

\* if max_pages and pages_scraped >= max_pages: break
ReachedMaxPages(max_pages, pages_scraped) ==
    Truthy(max_pages) /\ pages_scraped >= max_pages

\* if total_pages and page >= total_pages: break
ReachedTotalPages(total_pages, page) ==
    Truthy(total_pages) /\ page >= total_pages

\* save_state({"current_page": page, "prado_state": prado_state}) on a failed page
FailedState_run(page, prado_state) ==
    [current_page |-> page, prado_state |-> prado_state,
     last_run |-> FALSE, total_pages |-> None]

\* save_state({"current_page": page + 1, "prado_state": prado_state})
SavedState_run(page, prado_state) ==
    [current_page |-> page + 1, prado_state |-> prado_state,
     last_run |-> FALSE, total_pages |-> None]

SavedState_skips(page, prado_state, total_pages) ==
    [current_page |-> page + 2, prado_state |-> prado_state,
     last_run |-> TRUE, total_pages |-> total_pages]

\* save_state({"current_page": page + 1, "prado_state": ..., "last_run": ...,
\*             "total_pages": total_pages})
SavedState_scrape(page, prado_state, total_pages) ==
    [current_page |-> page + 1, prado_state |-> prado_state,
     last_run |-> TRUE, total_pages |-> total_pages]

\* ------------------------------------------------------------------ storage
\* The sentinel "N/A" of an identity field; links and references are 1, 2, ...
NA == 0

\* An extracted announcement, reduced to its identity fields and one content field.
Announcements ==
    [lienDeConsultation : 0..MaxLien, reference : 0..MaxRef,
     datePublication : 1..MaxDate, objet : 1..MaxObjet]

\* Batches of one page: sequences of at most MaxBatch announcements.
Batches == UNION {[1..n -> Announcements] : n \in 0..MaxBatch}

\* No createdAt / updatedAt field in the document.
NoStamp == 0

\* a.get("lienDeConsultation") and a["lienDeConsultation"] != "N/A"
HasLink(a) == a.lienDeConsultation # NA

\* a.get("reference") and a["reference"] != "N/A"
HasReference(a) == a.reference # NA

\* The announcement gets an UpdateOne (it has a query), not a plain insert.
HasQuery(a) == HasLink(a) \/ HasReference(a)

\* The query of the UpdateOne, applied to a stored document.
Matches(doc, a) ==
    IF HasLink(a)
    THEN doc.lienDeConsultation = a.lienDeConsultation
    ELSE /\ doc.reference = a.reference
         /\ doc.datePublication = a.datePublication

\* update_one takes the first matching document in natural order; 0 when none.
FirstMatch(docs, a) ==
    IF \E i \in 1..Len(docs) : Matches(docs[i], a)
    THEN CHOOSE i \in 1..Len(docs) :
            /\ Matches(docs[i], a)
            /\ \A j \in 1..(i - 1) : ~Matches(docs[j], a)
    ELSE 0

\* create_index("lienDeConsultation", unique=True, sparse=True): a document other
\* than docs[i] already has this value of the field.  The extractor always
\* sets the field, to "N/A" at least, so the sparse index holds every document.
DuplicateKey(docs, i, lien) ==
    \E j \in 1..Len(docs) : j # i /\ docs[j].lienDeConsultation = lien

\* The document an announcement becomes.
Document(a, createdAt, updatedAt) ==
    [lienDeConsultation |-> a.lienDeConsultation, reference |-> a.reference,
     datePublication |-> a.datePublication, objet |-> a.objet,
     createdAt |-> createdAt, updatedAt |-> updatedAt]

\* {"$set": a} on a stored document (save_announcements).
Set_run(doc, a) == Document(a, doc.createdAt, doc.updatedAt)

\* The server rejects an update that names one path under two operators:
\* bulk_upsert_announcements puts createdAt in $set and in $setOnInsert.
ConflictingUpdate(setPaths, setOnInsertPaths) == setPaths \cap setOnInsertPaths # {}

\* UpdateOne(query, update, upsert=True) on the collection: the documents after
\* it and what became of the announcement.
UpdateOne(docs, a, conflict, now) ==
    LET i == FirstMatch(docs, a) IN
    IF conflict THEN [docs |-> docs, outcome |-> "failed"]
    ELSE IF DuplicateKey(docs, i, a.lienDeConsultation)
    THEN [docs |-> docs, outcome |-> "failed"]
    ELSE IF i = 0
    THEN [docs |-> Append(docs, Document(a, now, now)), outcome |-> "created"]
    ELSE [docs |-> [docs EXCEPT ![i] = Set_run(@, a)],
          outcome |-> IF Set_run(docs[i], a) = docs[i] THEN "matched" ELSE "updated"]

\* insert of one document by insert_many.
InsertOne(docs, a, now) ==
    IF DuplicateKey(docs, 0, a.lienDeConsultation)
    THEN [docs |-> docs, outcome |-> "failed"]
    ELSE [docs |-> Append(docs, Document(a, now, now)), outcome |-> "created"]

\* Indices of the batch, in order, whose announcement has / has no query.
Indices(batch, queried) ==
    SelectSeq([i \in 1..Len(batch) |-> i], LAMBDA i : HasQuery(batch[i]) = queried)

Reverse(s) == [i \in 1..Len(s) |-> s[Len(s) + 1 - i]]

\* collection.bulk_write(bulk_ops, ordered=False): every operation is tried.
RECURSIVE bulk_write(_, _, _, _, _, _)
bulk_write(docs, batch, todo, outcome, conflict, now) ==
    IF todo = <<>> THEN [docs |-> docs, outcome |-> outcome]
    ELSE LET r == UpdateOne(docs, batch[Head(todo)], conflict, now)
         IN bulk_write(r.docs, batch, Tail(todo),
                       [outcome EXCEPT ![Head(todo)] = r.outcome], conflict, now)

\* collection.insert_many(plain_inserts): ordered, it stops at the first error.
RECURSIVE insert_many(_, _, _, _, _)
insert_many(docs, batch, todo, outcome, now) ==
    IF todo = <<>> THEN [docs |-> docs, outcome |-> outcome]
    ELSE LET r == InsertOne(docs, batch[Head(todo)], now)
         IN IF r.outcome = "failed"
            THEN [docs |-> docs, outcome |-> [outcome EXCEPT ![Head(todo)] = "failed"]]
            ELSE insert_many(r.docs, batch, Tail(todo),
                             [outcome EXCEPT ![Head(todo)] = "created"], now)

\* The driver raises BulkWriteError when an operation it tried has failed.
Raised(outcome) == \E i \in DOMAIN outcome : outcome[i] = "failed"

\* upserted_count / len(inserted_ids)
Count(outcome, what) == Cardinality({i \in DOMAIN outcome : outcome[i] = what})

\* The body both ingestion functions share: the two queues, the bulk write, and
\* the insert when the bulk write has not raised.  order is the order in which
\* the server takes the unordered operations.
Ingest(docs, batch, reversed, conflict, now) ==
    LET none == [i \in 1..Len(batch) |-> "skipped"]
        ops == Indices(batch, TRUE)
        bulk == bulk_write(docs, batch, IF reversed THEN Reverse(ops) ELSE ops,
                           none, conflict, now)
        plain == IF Raised(bulk.outcome) THEN bulk
                 ELSE insert_many(bulk.docs, batch, Indices(batch, FALSE),
                                  bulk.outcome, now)
    IN [docs |-> plain.docs, outcome |-> plain.outcome,
        raised |-> Raised(plain.outcome),
        inserted |-> Count(plain.outcome, "created")]

NoIngestion == [calls |-> 0, batch |-> <<>>, reversed |-> FALSE, outcome |-> <<>>,
                raised |-> FALSE, returned |-> 0]

\* --------------------------------------------------------------- extraction
\* Field extractor and page parser of src/extraction.py.  A text is a sequence
\* of characters; the text a date is searched in is a sequence of tokens, a
\* token being a word or a match of the pattern of parse_date.

\* parse_date returned None.
NoDate == [year |-> 0, month |-> 0, day |-> 0, hour |-> 0, minute |-> 0]

\* A token that is no match of \d{1,2}/\d{1,2}/\d{4}.
Word == [kind |-> "word", a |-> 0, b |-> 0, y |-> 0, timed |-> FALSE, h |-> 0, m |-> 0]

\* Matches a/b/y of the pattern, alone or followed by blanks and h:m.
DateTokens ==
    [kind : {"date"}, a : {3, 13, 29, 31}, b : {2, 4, 13}, y : {2023, 2024},
     timed : {FALSE}, h : {0}, m : {0}]
    \cup [kind : {"date"}, a : {3, 31}, b : {2, 13}, y : {2024},
          timed : {TRUE}, h : {14, 24}, m : {30, 60}]

\* Texts handed to parse_date: empty, without match, with one match, with two.
DateTexts ==
    {<<>>, <<Word>>}
    \cup {<<d>> : d \in DateTokens}
    \cup {<<Word, d>> : d \in DateTokens}
    \cup {<<d, Word>> : d \in DateTokens}
    \cup {<<d, e>> : d \in {x \in DateTokens : x.a = 31 /\ x.y = 2024 /\ ~x.timed},
                     e \in {x \in DateTokens : x.a = 3 /\ x.y = 2024}}

\* re.search: the leftmost match, 0 when the text has none.
RECURSIVE Search(_, _)
Search(s, i) ==
    IF i > Len(s) THEN 0
    ELSE IF s[i].kind = "date" THEN i
    ELSE Search(s, i + 1)

DaysInMonth(month, year) ==
    IF month = 2
    THEN (IF year % 4 = 0 /\ (year % 100 # 0 \/ year % 400 = 0) THEN 29 ELSE 28)
    ELSE IF month \in {4, 6, 9, 11} THEN 30 ELSE 31

\* datetime.strptime(as_str, fmt) with the fields already split: it raises
\* ValueError (here: NoDate) on a value out of range.
strptime(day, month, year, hour, minute) ==
    IF /\ year >= 1
       /\ month \in 1..12
       /\ day >= 1 /\ day <= DaysInMonth(month, year)
       /\ hour \in 0..23
       /\ minute \in 0..59
    THEN [year |-> year, month |-> month, day |-> day, hour |-> hour, minute |-> minute]
    ELSE NoDate

Fields_monthFirst(tok) == [day |-> tok.b, month |-> tok.a]

\* fmt = "%d/%m/%Y[ %H:%M]": the first number is the day, the second the month.
Fields(tok) == [day |-> tok.a, month |-> tok.b]

\* parse_date(date_str)
parse_date(date_str) ==
    LET i == Search(date_str, 1) IN
    IF date_str = <<>> THEN NoDate
    ELSE IF i = 0 THEN NoDate
    ELSE LET tok == date_str[i]
         IN IF tok.timed
            THEN strptime(Fields(tok).day, Fields(tok).month, tok.y, tok.h, tok.m)
            ELSE strptime(Fields(tok).day, Fields(tok).month, tok.y, 0, 0)

\* A string is a sequence of pieces, each piece a string of Python that the
\* functions below never look inside: " " is one blank, "'" one quote.
NAText == <<"N/A">>

BASE == <<"https://", "www.marchespublics.gov.ma">>

\* s.startswith(prefix), prefix one piece
startswith(s, prefix) == s # <<>> /\ s[1] = prefix

\* s.startswith("http")
startswith_http(s) == startswith(s, "http://") \/ startswith(s, "https://")

RECURSIVE lstrip(_)
lstrip(s) == IF startswith(s, " ") THEN lstrip(Tail(s)) ELSE s

RECURSIVE rstrip(_)
rstrip(s) ==
    IF s # <<>> /\ s[Len(s)] = " " THEN rstrip(SubSeq(s, 1, Len(s) - 1)) ELSE s

\* s.strip()
strip(s) == rstrip(lstrip(s))

\* Length of the longest run without quote at the head of s: [^']+
RECURSIVE NoQuoteRun(_)
NoQuoteRun(s) == IF s = <<>> \/ s[1] = "'" THEN 0 ELSE 1 + NoQuoteRun(Tail(s))

\* The pattern popUp\(\s*'([^']+)' matched at the head of s: group 1, or <<>>
\* when it does not match there.
MatchPopUp(s) ==
    IF ~startswith(s, "popUp(") THEN <<>>
    ELSE LET q == lstrip(Tail(s))
         IN IF ~startswith(q, "'") THEN <<>>
            ELSE LET n == NoQuoteRun(Tail(q))
                 IN IF n >= 1 /\ Len(q) >= n + 2 THEN SubSeq(q, 2, n + 1) ELSE <<>>

\* re.search(r"popUp\(\s*'([^']+)'", href): group 1 of the leftmost match.
RECURSIVE SearchPopUp(_)
SearchPopUp(s) ==
    IF s = <<>> THEN <<>>
    ELSE IF MatchPopUp(s) # <<>> THEN MatchPopUp(s)
    ELSE SearchPopUp(Tail(s))

\* normalize_popup_link: the URL made of the target inside popUp('...').
Unwrapped(inner) ==
    IF startswith(inner, "/") THEN BASE \o inner
    ELSE IF startswith(inner, "index.php") THEN BASE \o <<"/">> \o inner
    ELSE IF startswith(inner, "?") THEN BASE \o <<"/", "index.php">> \o inner
    ELSE IF startswith(inner, "page=") THEN BASE \o <<"/", "index.php", "?">> \o inner
    ELSE BASE \o <<"/", "index.php", "?">> \o inner

\* normalize_popup_link(href)
normalize_popup_link(href) ==
    LET h == strip(href) IN
    IF href = <<>> THEN NAText
    ELSE IF startswith_http(h) THEN h
    ELSE IF SearchPopUp(h) # <<>> THEN Unwrapped(SearchPopUp(h))
    ELSE IF startswith(h, "index.php") THEN BASE \o <<"/">> \o h
    ELSE IF startswith(h, "?") THEN BASE \o <<"/", "index.php">> \o h
    ELSE h

\* Targets of a consultation link as the site or another page may write them.
Targets ==
    {<<"/", "index.php", "?", "page=", "x">>,
     <<"index.php", "?", "page=", "x">>,
     <<"?", "page=", "x">>,
     <<"page=", "x">>,
     <<"x">>,
     <<"http://", "other", "/", "x">>}

\* href values: a popUp launcher around a target, well formed, with blanks,
\* with double quotes, with an empty target; a plain href with the
\* refConsultation parameter; an absolute one; none.
PopUpHrefs ==
    {<<"javascript:", "popUp(", "'">> \o t \o <<"'", ",", "'yes'", ")">> : t \in Targets}
    \cup {<<" ", "javascript:", "popUp(", " ", "'">> \o t \o <<"'", ")", " ">> : t \in Targets}
    \cup {<<"javascript:", "popUp(", "\"">> \o t \o <<"\"", ")">> : t \in Targets}
    \cup {<<"javascript:", "popUp(", "'", "'", ")">>}
    \cup {<<"https://", "www.marchespublics.gov.ma", "/", "?", "popUp">>}

RefConsultationHrefs == {t \o <<"&", "refConsultation", "=", "1">> : t \in Targets}

Hrefs == {<<>>} \cup PopUpHrefs \cup RefConsultationHrefs

\* Length of the word at the head of s.
RECURSIVE WordLen(_)
WordLen(s) == IF s = <<>> \/ s[1] = " " THEN 0 ELSE 1 + WordLen(Tail(s))

\* s.split()
RECURSIVE split(_)
split(s) ==
    LET t == lstrip(s) IN
    IF t = <<>> THEN <<>>
    ELSE <<SubSeq(t, 1, WordLen(t))>> \o split(SubSeq(t, WordLen(t) + 1, Len(t)))

\* sep.join(texts)
RECURSIVE join(_, _)
join(sep, texts) ==
    IF texts = <<>> THEN <<>>
    ELSE IF Len(texts) = 1 THEN texts[1]
    ELSE texts[1] \o sep \o join(sep, Tail(texts))

\* re.sub(r'^\s*<label>\s*:?\s*', '', txt)
sub_label(label, txt) ==
    LET a == lstrip(txt) IN
    IF ~startswith(a, label) THEN txt
    ELSE LET b == lstrip(Tail(a))
         IN lstrip(IF startswith(b, ":") THEN Tail(b) ELSE b)

\* Some piece of s is one of pieces: a substring test on an href.
Contains(s, pieces) == \E i \in 1..Len(s) : s[i] \in pieces

\* [f(t) for t in texts if keep(f(t))]
Stripped(texts) == [i \in 1..Len(texts) |-> strip(texts[i])]

\* objet / acheteurPublic from the text of the panel or of the parent of <strong>.
Labelled(label, text) ==
    LET txt == strip(sub_label(label, strip(text)))
    IN IF txt # <<>> THEN join(<<" ">>, split(txt)) ELSE NAText

\* extract_announcement: objet, acheteurPublic
LabelledField(cell_intitule, label, panel, strong) ==
    IF cell_intitule = <<>> THEN NAText
    ELSE IF panel # <<>> THEN Labelled(label, panel[1])
    ELSE IF strong # <<>>
    THEN LET txt == strip(sub_label(label, strong[1]))
         IN IF txt # <<>> THEN join(<<" ">>, split(txt)) ELSE NAText
    ELSE NAText

\* extract_announcement: procedure
Procedure(cell_ref) ==
    IF cell_ref = <<>> THEN NAText
    ELSE LET li == cell_ref[1].bulle
             txt == IF li # <<>> THEN strip(li[1]) ELSE <<>>
             first == IF txt # <<>> THEN split(txt)[1] ELSE NAText
         IN IF first = NAText
            THEN (IF cell_ref[1].code # <<>> THEN cell_ref[1].code[1] ELSE NAText)
            ELSE first

\* extract_announcement: lieuExecution
LieuExecution(cell_lieu) ==
    IF cell_lieu = <<>> \/ cell_lieu[1].panel = <<>> THEN NAText
    ELSE LET p == cell_lieu[1].panel[1]
             direct_texts == SelectSeq(Stripped(p.direct), LAMBDA t : t # <<>>)
             cleaned == join(<<" ">>,
                             SelectSeq(Stripped(p.lines),
                                       LAMBDA ln : ln # <<>> /\ ~startswith(ln, "...")))
         IN IF direct_texts # <<>> THEN join(<<",", " ">>, direct_texts)
            ELSE IF cleaned # <<>> THEN cleaned
            ELSE NAText

\* extract_announcement: one entry of piecesJointes
Attachment(h) ==
    IF startswith(h, "/") THEN BASE \o h
    ELSE IF startswith_http(h) THEN h
    ELSE BASE \o <<"/">> \o h

\* row.xpath('.//a/@href')
AllHrefs(row) == [i \in 1..Len(row.anchors) |-> row.anchors[i].href]

\* extract_announcement: the href handed to normalize_popup_link
Link(row) ==
    LET inCell == SelectSeq(row.anchors, LAMBDA a : a.in_lieu)
        link_candidates == SelectSeq([i \in 1..Len(inCell) |-> inCell[i].href],
                                     LAMBDA h : Contains(h, {"popUp(", "popUp"}))
        alt == SelectSeq(AllHrefs(row), LAMBDA h : Contains(h, {"refConsultation"}))
        link == IF row.cell_lieu # <<>> /\ link_candidates # <<>>
                THEN link_candidates[1] ELSE <<>>
    IN IF link # <<>> THEN link
       ELSE IF alt # <<>> THEN alt[1]
       ELSE <<>>

\* extract_announcement(row).  The closing loop over `defaults` finds every
\* key set and replaces a None by None.
extract_announcement(row) ==
    LET cell_ref == row.cell_ref
        cell_intitule == row.cell_intitule
        cell_lieu == row.cell_lieu
        cell_dateend == row.cell_dateend
    IN [procedure |-> Procedure(cell_ref),
        categorie |-> IF cell_ref # <<>> /\ cell_ref[1].cat # <<>>
                      THEN strip(cell_ref[1].cat[1]) ELSE NAText,
        datePublication |-> IF cell_ref # <<>> THEN parse_date(cell_ref[1].text)
                            ELSE NoDate,
        reference |-> IF cell_intitule # <<>> /\ cell_intitule[1].ref # <<>>
                      THEN strip(cell_intitule[1].ref[1]) ELSE NAText,
        objet |-> IF cell_intitule = <<>> THEN NAText
                  ELSE LabelledField(cell_intitule, "Objet", cell_intitule[1].objet,
                                     cell_intitule[1].objet_strong),
        acheteurPublic |->
                  IF cell_intitule = <<>> THEN NAText
                  ELSE LabelledField(cell_intitule, "Acheteur public",
                                     cell_intitule[1].achet,
                                     cell_intitule[1].achet_strong),
        lots |-> IF cell_lieu # <<>> /\ cell_lieu[1].span # <<>>
                    /\ strip(cell_lieu[1].span[1]) # <<>>
                 THEN strip(cell_lieu[1].span[1]) ELSE <<"-">>,
        lieuExecution |-> LieuExecution(cell_lieu),
        dateLimite |-> IF cell_dateend # <<>> THEN parse_date(cell_dateend[1].text)
                       ELSE NoDate,
        piecesJointes |->
            LET att == SelectSeq(AllHrefs(row),
                                 LAMBDA h : Contains(h, {".pdf", "download", "pieces"}))
            IN [i \in 1..Len(att) |-> Attachment(att[i])],
        lienDeConsultation |-> normalize_popup_link(Link(row))]

\* ---- rows: what the xpath queries of extract_announcement find in a <tr>
\* td[@headers="cons_ref"]: absent; empty; with info bubble, category and date;
\* with no bubble but an upper-case code.
CellRefs ==
    {<<>>,
     <<[bulle |-> <<>>, code |-> <<>>, cat |-> <<>>, text |-> <<>>]>>,
     <<[bulle |-> <<<<" ", "AOO", " ", "x">>>>, code |-> <<<<"AOO">>>>,
        cat |-> <<<<" ", "Travaux", " ">>>>,
        text |-> <<Word, [Word EXCEPT !.kind = "date", !.a = 13, !.b = 2, !.y = 2024]>>]>>,
     <<[bulle |-> <<<<" ">>>>, code |-> <<<<"AO">>>>, cat |-> <<<<" ">>>>,
        text |-> <<[Word EXCEPT !.kind = "date", !.a = 3, !.b = 13, !.y = 2024]>>]>>}

\* td[@headers="cons_intitule"]: absent; empty; with reference and panels; with
\* <strong> labels instead of panels; with a blank reference and blank panels.
IntituleFull ==
    <<[ref |-> <<<<" ", "R1", " ">>>>,
       objet |-> <<<<" ", "Objet", " ", ":", " ", "a", " ", " ", "b", " ">>>>,
       objet_strong |-> <<>>,
       achet |-> <<<<"Acheteur public", ":", "c">>>>, achet_strong |-> <<>>]>>

IntituleBlank ==
    <<[ref |-> <<<<" ">>>>, objet |-> <<<<"Objet", ":", " ">>>>, objet_strong |-> <<>>,
       achet |-> <<<<" ">>>>, achet_strong |-> <<>>]>>

CellIntitules ==
    {<<>>,
     <<[ref |-> <<>>, objet |-> <<>>, objet_strong |-> <<>>,
        achet |-> <<>>, achet_strong |-> <<>>]>>,
     IntituleFull,
     <<[ref |-> <<<<"R1">>>>, objet |-> <<>>,
        objet_strong |-> <<<<"Objet", ":", " ", "a">>>>,
        achet |-> <<>>, achet_strong |-> <<<<"Acheteur public", " ">>>>]>>,
     IntituleBlank}

\* td[@headers="cons_lieuExe"]: absent; empty; with span and direct texts; with
\* nested text alone.
CellLieus ==
    {<<>>,
     <<[span |-> <<>>, panel |-> <<>>]>>,
     <<[span |-> <<<<" ", "2", " ">>>>,
        panel |-> <<[direct |-> <<<<" ", "Rabat">>, <<" ">>, <<"Sale">>>>,
                     lines |-> <<>>]>>]>>,
     <<[span |-> <<<<" ">>>>,
        panel |-> <<[direct |-> <<<<" ">>>>,
                     lines |-> <<<<" ", "Rabat", " ">>, <<"...", "x">>, <<"Sale">>>>]>>]>>}

\* td[@headers="cons_dateEnd"]
CellDateEnds ==
    {<<>>,
     <<[text |-> <<>>]>>,
     <<[text |-> <<[Word EXCEPT !.kind = "date", !.a = 3, !.b = 4, !.y = 2024,
                                !.timed = TRUE, !.h = 14, !.m = 30]>>]>>}

\* The anchors of the row in document order, each in the location cell or not.
Anchor(in_lieu, href) == [in_lieu |-> in_lieu, href |-> href]

PopUpAnchor ==
    <<"javascript:", "popUp(", "'", "index.php", "?", "page=", "x", "'", ")">>
PdfAnchor == <<"files", "/", "avis", ".pdf">>
ConsultationAnchor == <<"/", "index.php", "?", "page=", "x", "&", "refConsultation", "=", "1">>

AnchorLists ==
    {<<>>,
     <<Anchor(FALSE, PdfAnchor)>>,
     <<Anchor(FALSE, ConsultationAnchor)>>,
     <<Anchor(FALSE, PopUpAnchor)>>,
     <<Anchor(TRUE, PopUpAnchor)>>,
     <<Anchor(FALSE, ConsultationAnchor), Anchor(TRUE, PopUpAnchor),
       Anchor(FALSE, PdfAnchor)>>}

\* input elements of the row whose id contains "refCons": none, one without
\* value attribute, one with a value.
RefConsInputs ==
    {<<>>,
     <<[has_value |-> FALSE, value |-> <<>>]>>,
     <<[has_value |-> TRUE, value |-> <<"1">>]>>}

Rows ==
    {row \in [cell_ref : CellRefs, cell_intitule : CellIntitules,
              cell_lieu : CellLieus, cell_dateend : CellDateEnds,
              anchors : AnchorLists, refCons : RefConsInputs, raises : {FALSE}] :
        row.cell_lieu = <<>> => \A i \in 1..Len(row.anchors) : ~row.anchors[i].in_lieu}

\* Most rows of one page handed to the page parser.
MaxPageRows == 2

\* Rows of a page: without cons_intitule cell, with a full one, with one whose
\* reference and panels are blank; with the three kinds of hidden input; rows
\* on which extract_announcement raises.
PageRows ==
    [cell_ref : {<<>>}, cell_intitule : {<<>>, IntituleFull, IntituleBlank},
     cell_lieu : {<<>>}, cell_dateend : {<<>>}, anchors : {<<>>},
     refCons : RefConsInputs, raises : BOOLEAN]

Pages == UNION {[1..n -> PageRows] : n \in 0..MaxPageRows}

\* ann.get(key) and ann[key] != "N/A"
Present(text) == text # <<>> /\ text # NAText

\* row.xpath('.//input[contains(@id,"refCons")]/@value')
ref_hidden(row) ==
    LET valued == SelectSeq(row.refCons, LAMBDA el : el.has_value)
    IN [i \in 1..Len(valued) |-> valued[i].value]

\* extract_announcements_from_tree: the `if` and `else` that decide on a row.
Included(row, ann) ==
    \/ Present(ann.reference) \/ Present(ann.objet)
    \/ ref_hidden(row) # <<>>

RECURSIVE ExtractRows(_, _)

OnRowError_raise(rows, announcements) ==
    [raised |-> TRUE, announcements |-> announcements]

\* except Exception as e: print(...); continue
OnRowError(rows, announcements) == ExtractRows(Tail(rows), announcements)

\* The loop `for row in rows` of extract_announcements_from_tree.
ExtractRows(rows, announcements) ==
    IF rows = <<>> THEN [raised |-> FALSE, announcements |-> announcements]
    ELSE LET row == Head(rows) IN
         IF row.raises THEN OnRowError(rows, announcements)
         ELSE LET ann == extract_announcement(row)
              IN ExtractRows(Tail(rows),
                             IF Included(row, ann) THEN Append(announcements, ann)
                             ELSE announcements)

\* extract_announcements_from_tree(tree), rows the result of its first query.
extract_announcements_from_tree(rows) == ExtractRows(rows, <<>>)

\* No call of the extraction functions has been made.
NoExtraction == [fn |-> "none"]

\* ------------------------------------------------------------------ state
VARIABLES
    program,          \* "cli" (main.py) or "service" (full_backend)
    state_file,       \* content of STATE_FILE / scraper_state.json
    task,             \* locals and position of each run of the crawl loop
    is_running,       \* ScraperService.is_running
    current_status,   \* ScraperService.current_status
    hist,             \* per run: what it loaded, requested and was told
    collection,       \* documents of the announcements collection, in natural order
    ingestion,        \* the latest call of the ingestion operation and its outcome
    extraction        \* the call of an extraction function: its input and result

vars == <<program, state_file, task, is_running, current_status, hist,
          collection, ingestion, extraction>>

IdleTask == [pc |-> "idle", max_pages |-> None,
             page |-> 0, prado_state |-> NoToken, pages_scraped |-> 0,
             total_announcements |-> 0, total_pages |-> None,
             attempt |-> 0, tree |-> NoTree]

NotLoaded == [current_page |-> 0, prado_state |-> NoToken, start_page |-> 0]

\* req: the request in flight; seen: the last token a response of this run
\* contained; loaded: what the run read from the state file, kept until the run
\* first writes the file.
NoHist == [req |-> NoRequest, seen |-> NoToken, loaded |-> NotLoaded]

InitialStatus == [isRunning |-> FALSE, lastRun |-> "none", nextRun |-> None,
                  lastScrapedPages |-> 0, totalAnnouncementsScraped |-> 0,
                  errors |-> <<>>]

Init ==
    /\ program \in {"cli", "service"}
    /\ state_file = EmptyState
    /\ task = [t \in Tasks |-> IdleTask]
    /\ is_running = FALSE
    /\ current_status = InitialStatus
    /\ hist = [t \in Tasks |-> NoHist]
    /\ collection = <<>>
    /\ ingestion = NoIngestion
    /\ extraction = NoExtraction


\* ======================================================================
\* Command line driver: run() of src/main.py with fetch_page of src/fetch.py
\* ======================================================================
Pc(t) == task[t].pc

\* A run is inside a fetch attempt / in the sleep that follows an attempt.
Requesting(t) == Pc(t) \in {"init_req", "loop_req"}
Waiting(t) == Pc(t) \in {"init_sleep", "loop_sleep", "init_backoff", "loop_backoff"}

\* The run is over: its locals are gone.
Forget(t) ==
    /\ task' = [task EXCEPT ![t] = IdleTask]
    /\ hist' = [hist EXCEPT ![t] = NoHist]

\* Page number and token of the fetch_page call a run is in.
FetchPageNum(t) == IF Pc(t) = "init_req" THEN 1 ELSE task[t].page
FetchToken(t) == IF Pc(t) = "init_req" THEN NoToken ELSE task[t].prado_state

\* The token a run has most recently been handed by the server.
Seen(t, tree) == IF tree.token # NoToken THEN tree.token ELSE hist[t].seen

BackoffPc_none(pc) == pc

\* A failed attempt with attempts left: the run sleeps 2 * attempt before the
\* next one.
BackoffPc(pc) == IF pc = "init_req" THEN "init_backoff" ELSE "loop_backoff"

\* run(max_pages): load the state and call fetch_page for the initial page.
run(max_pages) ==
    /\ program = "cli"
    /\ Pc(CLI) = "idle"
    /\ task' = [task EXCEPT ![CLI] =
                  [IdleTask EXCEPT !.pc = "init_req",
                                   !.max_pages = max_pages,
                                   !.page = StateCurrentPage(state_file, default_start_page),
                                   !.prado_state = state_file.prado_state,
                                   !.attempt = 1]]
    /\ hist' = [hist EXCEPT ![CLI] =
                  [NoHist EXCEPT !.loaded = [current_page |-> state_file.current_page,
                                             prado_state |-> state_file.prado_state,
                                             start_page |-> default_start_page]]]
    /\ UNCHANGED <<extraction, collection, ingestion, program, state_file, is_running, current_status>>

\* fetch_page: one attempt that succeeds; the tree is returned.
fetch_page_ok(r) ==
    /\ program = "cli"
    /\ Pc(CLI) \in {"init_req", "loop_req"}
    /\ FetchPageNum(CLI) <= MaxPage
    /\ ResponseTo(Pc(CLI), r)
    /\ task' = [task EXCEPT ![CLI].pc = IF Pc(CLI) = "init_req" THEN "init_sleep"
                                        ELSE "loop_sleep",
                            ![CLI].tree = r,
                            ![CLI].attempt = 0]
    /\ hist' = [hist EXCEPT ![CLI].req = Request(FetchPageNum(CLI), FetchToken(CLI))]
    /\ UNCHANGED <<extraction, collection, ingestion, program, state_file, is_running, current_status>>

\* fetch_page: one attempt that fails with attempts left; the driver sleeps
\* 2 * attempt.
fetch_page_retry ==
    /\ program = "cli"
    /\ Pc(CLI) \in {"init_req", "loop_req"}
    /\ FetchPageNum(CLI) <= MaxPage
    /\ AttemptsLeft(task[CLI].attempt, max_retries)
    /\ task' = [task EXCEPT ![CLI].pc = BackoffPc(Pc(CLI))]
    /\ hist' = [hist EXCEPT ![CLI].req = Request(FetchPageNum(CLI), FetchToken(CLI))]
    /\ UNCHANGED <<extraction, collection, ingestion, program, state_file, is_running, current_status>>

\* fetch_page: time.sleep(2 * attempt) is over, the next attempt starts.
fetch_page_again ==
    /\ program = "cli"
    /\ Pc(CLI) \in {"init_backoff", "loop_backoff"}
    /\ task' = [task EXCEPT ![CLI].pc = IF Pc(CLI) = "init_backoff" THEN "init_req"
                                        ELSE "loop_req",
                            ![CLI].attempt = @ + 1]
    /\ UNCHANGED <<extraction, collection, ingestion, program, state_file, is_running, current_status, hist>>

\* fetch_page returns (None, None) for the initial page: run() returns.
run_initial_failed ==
    /\ program = "cli"
    /\ Pc(CLI) = "init_req"
    /\ task[CLI].attempt = max_retries
    /\ Forget(CLI)
    /\ UNCHANGED <<extraction, collection, ingestion, program, state_file, is_running, current_status>>

\* fetch_page returns (None, None) for a page of the loop: save state, break.
run_page_failed ==
    /\ program = "cli"
    /\ Pc(CLI) = "loop_req"
    /\ task[CLI].page <= MaxPage
    /\ task[CLI].attempt = max_retries
    /\ state_file' = FailedState_run(task[CLI].page, task[CLI].prado_state)
    /\ Forget(CLI)
    /\ UNCHANGED <<extraction, collection, ingestion, program, is_running, current_status>>

\* Top of `while True` in run(): break on max_pages or call fetch_page.
RunLoopTop(l) ==
    IF ReachedMaxPages(l.max_pages, l.pages_scraped)
    THEN IdleTask
    ELSE [l EXCEPT !.pc = "loop_req", !.attempt = 1, !.tree = NoTree]

\* After the initial fetch: take its token and total-page count, enter the loop.
run_after_initial ==
    /\ program = "cli"
    /\ Pc(CLI) = "init_sleep"
    /\ LET l == task[CLI]
           n == RunLoopTop([l EXCEPT
                    !.prado_state = InitialToken_run(l.tree, l.prado_state),
                    !.total_pages = l.tree.total,
                    !.pages_scraped = 0])
       IN /\ task' = [task EXCEPT ![CLI] = n]
          /\ hist' = [hist EXCEPT ![CLI] =
                        IF n.pc = "idle" THEN NoHist
                        ELSE [@ EXCEPT !.seen = Seen(CLI, l.tree), !.req = NoRequest]]
    /\ UNCHANGED <<extraction, collection, ingestion, program, state_file, is_running, current_status>>

\* After a page of the loop: update the token, extract, call save_announcements.
run_after_page ==
    /\ program = "cli"
    /\ Pc(CLI) = "loop_sleep"
    /\ LET l == task[CLI]
       IN /\ task' = [task EXCEPT
                        ![CLI].prado_state = UpdateToken(extract_prado_state(l.tree), l.prado_state),
                        ![CLI].tree = [l.tree EXCEPT !.token = NoToken],
                        ![CLI].pc = "ingest"]
          /\ hist' = [hist EXCEPT ![CLI].seen = Seen(CLI, l.tree),
                                  ![CLI].req = NoRequest]
    /\ UNCHANGED <<extraction, collection, ingestion, program, state_file, is_running, current_status>>

\* save_announcements raises (a bulk write error): run() ends with the exception.
run_save_raised ==
    /\ program = "cli"
    /\ Pc(CLI) = "ingest"
    /\ task[CLI].tree.rows > 0
    /\ Forget(CLI)
    /\ UNCHANGED <<extraction, collection, ingestion, program, state_file, is_running, current_status>>

\* save_announcements returned: save state, count the page, stop or go on.
run_after_save ==
    /\ program = "cli"
    /\ Pc(CLI) = "ingest"
    /\ LET l == task[CLI]
           n == IF ReachedTotalPages(l.total_pages, l.page)
                THEN IdleTask
                ELSE RunLoopTop([l EXCEPT !.pages_scraped = @ + 1, !.page = @ + 1])
       IN /\ state_file' = SavedState_run(l.page, l.prado_state)
          /\ task' = [task EXCEPT ![CLI] = n]
          /\ hist' = [hist EXCEPT ![CLI] = IF n.pc = "idle" THEN NoHist
                                            ELSE [@ EXCEPT !.loaded = NotLoaded]]
    /\ UNCHANGED <<extraction, collection, ingestion, program, is_running, current_status>>

NextCli(R, M) ==
    \/ \E m \in M : run(m)
    \/ Requesting(CLI) /\ \E r \in R : fetch_page_ok(r)
    \/ fetch_page_retry
    \/ fetch_page_again
    \/ run_initial_failed
    \/ run_page_failed
    \/ run_after_initial
    \/ run_after_page
    \/ run_save_raised
    \/ run_after_save


\* ======================================================================
\* API service: ScraperService of services/scraper.py and the routes of
\* api/routes/scraper.py.  Coroutines of one event loop: a coroutine keeps the
\* loop until it awaits something that suspends it (asyncio.sleep, a database
\* write); requests.get/post block the loop.
\* ======================================================================

\* The coroutine of run u holds the event loop.
Busy(u) ==
    \/ Pc(u) \in {"init_req", "loop_req"}
    \/ Pc(u) = "ingest" /\ task[u].tree.rows = 0

\* The event loop can resume run t / can serve a route.
CanResume(t) == \A u \in Tasks \ {t} : ~Busy(u)
CanServe == \A u \in Tasks : ~Busy(u)

\* A run of the crawl loop has been accepted and has not returned.
Crawling(t) == Pc(t) \notin {"idle", "queued", "rejected"}

\* ScraperService.get_status: refresh lastRun from the state file.
get_status(status, state) ==
    IF state.last_run THEN [status EXCEPT !.lastRun = "file"] ELSE status

\* scrape_pages, up to `self.current_status.errors = []`.
EntryStatus(running, status) ==
    IF running THEN status
    ELSE [status EXCEPT !.isRunning = TRUE, !.errors = <<>>]

\* scrape_pages, from load_state to the call of fetch_page for the initial page.
EntryLocals(state, max_pages, start_page, config) ==
    [IdleTask EXCEPT
        !.pc = "init_req",
        !.max_pages = PyOr(config.maxPages, max_pages),
        !.page = PyOr(config.startPage, StateCurrentPage(state, start_page)),
        !.prado_state = state.prado_state,
        !.attempt = 1]

EntryHist(state, config) ==
    [NoHist EXCEPT !.loaded = [current_page |-> state.current_page,
                               prado_state |-> state.prado_state,
                               start_page |-> config.startPage]]

ScraperConfig(maxPages, startPage) == [maxPages |-> maxPages, startPage |-> startPage]

\* The free slot a new coroutine takes.
FreeSlot(t) == Pc(t) = "idle" /\ \A u \in Tasks : u < t => Pc(u) # "idle"

\* POST /start while status.isRunning: rejected.
start_scraper_conflict ==
    /\ program = "service"
    /\ CanServe
    /\ get_status(current_status, state_file).isRunning
    /\ current_status' = get_status(current_status, state_file)
    /\ UNCHANGED <<extraction, collection, ingestion, program, state_file, task, is_running, hist>>

\* POST /start: the background task is added.  Nothing reads its arguments
\* before the task runs, so the model draws them when it does.
start_scraper(t) ==
    /\ program = "service"
    /\ CanServe
    /\ FreeSlot(t)
    /\ ~get_status(current_status, state_file).isRunning
    /\ current_status' = get_status(current_status, state_file)
    /\ task' = [task EXCEPT ![t] = [IdleTask EXCEPT !.pc = "queued"]]
    /\ UNCHANGED <<extraction, collection, ingestion, program, state_file, is_running, hist>>

run_scraper_task_rejected_finally(t) ==
    /\ program = "service"
    /\ Pc(t) = "queued"
    /\ CanResume(t)
    /\ is_running
    /\ is_running' = FALSE
    /\ current_status' = [current_status EXCEPT !.isRunning = FALSE]
    /\ task' = [task EXCEPT ![t] = [IdleTask EXCEPT !.pc = "rejected"]]
    /\ UNCHANGED <<extraction, collection, ingestion, program, state_file, hist>>

\* run_scraper_task: scrape_pages raises ValueError("Scraper is already running").
run_scraper_task_rejected(t) ==
    /\ program = "service"
    /\ Pc(t) = "queued"
    /\ CanResume(t)
    /\ is_running
    /\ current_status' = EntryStatus(is_running, current_status)
    /\ task' = [task EXCEPT ![t] = [IdleTask EXCEPT !.pc = "rejected"]]
    /\ UNCHANGED <<extraction, collection, ingestion, program, state_file, is_running, hist>>

\* run_scraper_task: the ValueError is logged and the background task ends.
run_scraper_task_logged(t) ==
    /\ program = "service"
    /\ Pc(t) = "rejected"
    /\ Forget(t)
    /\ UNCHANGED <<extraction, collection, ingestion, program, state_file, is_running, current_status>>

\* run_scraper_task(max_pages, config): scrape_pages is entered.
run_scraper_task(t, max_pages, start_page) ==
    /\ program = "service"
    /\ Pc(t) = "queued"
    /\ CanResume(t)
    /\ ~is_running
    /\ is_running' = TRUE
    /\ current_status' = EntryStatus(is_running, current_status)
    /\ LET config == ScraperConfig(max_pages, start_page)
       IN /\ task' = [task EXCEPT ![t] =
                        EntryLocals(state_file, max_pages, default_start_page, config)]
          /\ hist' = [hist EXCEPT ![t] = EntryHist(state_file, config)]
    /\ UNCHANGED <<extraction, collection, ingestion, program, state_file>>

\* POST /test while status.isRunning: rejected.
test_scraper_conflict ==
    /\ program = "service"
    /\ CanServe
    /\ get_status(current_status, state_file).isRunning
    /\ current_status' = get_status(current_status, state_file)
    /\ UNCHANGED <<extraction, collection, ingestion, program, state_file, task, is_running, hist>>

\* POST /test: scrape_pages is awaited by the route itself.
test_scraper(t, pages) ==
    /\ program = "service"
    /\ CanServe
    /\ FreeSlot(t)
    /\ ~get_status(current_status, state_file).isRunning
    /\ LET config == ScraperConfig(pages, default_start_page)
       IN IF is_running
          THEN /\ current_status' =
                    EntryStatus(is_running, get_status(current_status, state_file))
               /\ UNCHANGED <<task, hist, is_running>>
          ELSE /\ is_running' = TRUE
               /\ current_status' =
                    EntryStatus(is_running, get_status(current_status, state_file))
               /\ task' = [task EXCEPT ![t] =
                             EntryLocals(state_file, pages, default_start_page, config)]
               /\ hist' = [hist EXCEPT ![t] = EntryHist(state_file, config)]
    /\ UNCHANGED <<extraction, collection, ingestion, program, state_file>>

\* GET /status
get_scraper_status ==
    /\ program = "service"
    /\ CanServe
    /\ current_status' = get_status(current_status, state_file)
    /\ UNCHANGED <<extraction, collection, ingestion, program, state_file, task, is_running, hist>>

\* POST /stop: ScraperService.stop_scraping
stop_scraper ==
    /\ program = "service"
    /\ CanServe
    /\ IF is_running
       THEN /\ is_running' = FALSE
            /\ current_status' = [current_status EXCEPT !.isRunning = FALSE]
       ELSE UNCHANGED <<is_running, current_status>>
    /\ UNCHANGED <<extraction, collection, ingestion, program, state_file, task, hist>>

\* DELETE /reset
reset_scraper_state ==
    /\ program = "service"
    /\ CanServe
    /\ IF get_status(current_status, state_file).isRunning
       THEN /\ current_status' = get_status(current_status, state_file)
            /\ UNCHANGED state_file
       ELSE /\ state_file' = EmptyState
            /\ current_status' = InitialStatus
    /\ UNCHANGED <<extraction, collection, ingestion, program, task, is_running, hist>>


\* ----------------------------------------------------------------------
\* scrape_pages and ScraperService.fetch_page, one action per stretch of code
\* between two suspensions.
\* ----------------------------------------------------------------------

\* The entry appended to current_status.errors.
FetchError(page) == <<"Failed to fetch page", page>>
ScraperError == <<"Scraper error", 0>>

\* Final status update of scrape_pages followed by its `finally`.
FinalStatus(status, l) ==
    [status EXCEPT !.lastRun = "start",
                   !.lastScrapedPages = l.pages_scraped,
                   !.totalAnnouncementsScraped = l.total_announcements,
                   !.isRunning = FALSE]

\* scrape_pages leaves its loop by `break` and returns.
Return(t, status, l) ==
    /\ current_status' = FinalStatus(status, l)
    /\ is_running' = FALSE
    /\ Forget(t)

\* fetch_page: an attempt succeeds; the coroutine sleeps the inter-request delay.
scrape_fetch_ok(t, r) ==
    /\ program = "service"
    /\ Pc(t) \in {"init_req", "loop_req"}
    /\ CanResume(t)
    /\ FetchPageNum(t) <= MaxPage
    /\ ResponseTo(Pc(t), r)
    /\ task' = [task EXCEPT ![t].pc = IF Pc(t) = "init_req" THEN "init_sleep"
                                      ELSE "loop_sleep",
                            ![t].tree = r,
                            ![t].attempt = 0]
    /\ hist' = [hist EXCEPT ![t].req = Request(FetchPageNum(t), FetchToken(t))]
    /\ UNCHANGED <<extraction, collection, ingestion, program, state_file, is_running, current_status>>

\* fetch_page: an attempt fails with attempts left; the coroutine sleeps 2 * attempt.
scrape_fetch_retry(t) ==
    /\ program = "service"
    /\ Pc(t) \in {"init_req", "loop_req"}
    /\ CanResume(t)
    /\ FetchPageNum(t) <= MaxPage
    /\ AttemptsLeft(task[t].attempt, SCRAPER_MAX_RETRIES)
    /\ task' = [task EXCEPT ![t].pc = BackoffPc(Pc(t))]
    /\ hist' = [hist EXCEPT ![t].req = Request(FetchPageNum(t), FetchToken(t))]
    /\ UNCHANGED <<extraction, collection, ingestion, program, state_file, is_running, current_status>>

\* fetch_page: the back-off sleep is over, the next attempt starts.
scrape_fetch_again(t) ==
    /\ program = "service"
    /\ Pc(t) \in {"init_backoff", "loop_backoff"}
    /\ CanResume(t)
    /\ task' = [task EXCEPT ![t].pc = IF Pc(t) = "init_backoff" THEN "init_req"
                                      ELSE "loop_req",
                            ![t].attempt = @ + 1]
    /\ UNCHANGED <<extraction, collection, ingestion, program, state_file, is_running, current_status, hist>>

\* The initial fetch returned (None, None): the exception is recorded.
scrape_initial_failed(t) ==
    /\ program = "service"
    /\ Pc(t) = "init_req"
    /\ CanResume(t)
    /\ task[t].attempt = SCRAPER_MAX_RETRIES
    /\ current_status' = [current_status EXCEPT
                            !.errors = Append(@, ScraperError),
                            !.isRunning = FALSE]
    /\ is_running' = FALSE
    /\ Forget(t)
    /\ UNCHANGED <<extraction, collection, ingestion, program, state_file>>

\* A fetch of the loop returned (None, None): record the error and break.
scrape_page_failed(t) ==
    /\ program = "service"
    /\ Pc(t) = "loop_req"
    /\ CanResume(t)
    /\ task[t].page <= MaxPage
    /\ task[t].attempt = SCRAPER_MAX_RETRIES
    /\ Return(t, [current_status EXCEPT !.errors = Append(@, FetchError(task[t].page))],
              task[t])
    /\ UNCHANGED <<extraction, collection, ingestion, program, state_file>>

\* Top of `while True` in scrape_pages; l holds the locals, status the status.
ScrapeLoopTop(t, l, status) ==
    IF ReachedMaxPages(l.max_pages, l.pages_scraped)
    THEN Return(t, status, l)
    ELSE /\ task' = [task EXCEPT ![t] = [l EXCEPT !.pc = "loop_req", !.attempt = 1,
                                                  !.tree = NoTree]]
         /\ hist' = [hist EXCEPT ![t].seen = Seen(t, task[t].tree),
                                 ![t].req = NoRequest,
                                 ![t].loaded = IF l.pages_scraped > 0 THEN NotLoaded ELSE @]
         /\ current_status' = status
         /\ UNCHANGED is_running

\* The initial fetch returned a tree: token, total pages, then the loop.
scrape_after_initial(t) ==
    /\ program = "service"
    /\ Pc(t) = "init_sleep"
    /\ CanResume(t)
    /\ LET l == task[t]
       IN ScrapeLoopTop(t, [l EXCEPT
                              !.prado_state = InitialToken_scrape(l.tree, l.prado_state),
                              !.total_pages = l.tree.total,
                              !.pages_scraped = 0,
                              !.total_announcements = 0],
                        current_status)
    /\ UNCHANGED <<extraction, collection, ingestion, program, state_file>>

\* No announcements on the page and a page already scraped: break.
EndOfListing(rows, pages_scraped) == rows = 0 /\ pages_scraped > 0

\* A fetch of the loop returned a tree: token, extraction, then the upsert.
scrape_after_page(t) ==
    /\ program = "service"
    /\ Pc(t) = "loop_sleep"
    /\ CanResume(t)
    /\ LET l == [task[t] EXCEPT
                   !.prado_state = UpdateToken(extract_prado_state(task[t].tree), @)]
       IN IF EndOfListing(l.tree.rows, l.pages_scraped)
          THEN Return(t, current_status, l)
          ELSE /\ task' = [task EXCEPT ![t] = [l EXCEPT !.pc = "ingest",
                                                        !.tree.token = NoToken]]
               /\ hist' = [hist EXCEPT ![t].seen = Seen(t, l.tree),
                                       ![t].req = NoRequest]
               /\ UNCHANGED <<is_running, current_status>>
    /\ UNCHANGED <<extraction, collection, ingestion, program, state_file>>

\* bulk_upsert_announcements returned `inserted`: save state, count, stop or go on.
scrape_after_upsert(t, inserted) ==
    /\ program = "service"
    /\ Pc(t) = "ingest"
    /\ CanResume(t)
    /\ inserted <= task[t].tree.rows
    /\ LET l == [task[t] EXCEPT !.total_announcements = @ + inserted,
                                !.pages_scraped = @ + 1]
       IN /\ state_file' = SavedState_scrape(l.page, l.prado_state, l.total_pages)
          /\ IF ReachedTotalPages(l.total_pages, l.page)
             THEN Return(t, current_status, l)
             ELSE ScrapeLoopTop(t, [l EXCEPT !.page = @ + 1],
                                [current_status EXCEPT
                                   !.lastScrapedPages = l.pages_scraped,
                                   !.totalAnnouncementsScraped = l.total_announcements])
    /\ UNCHANGED <<extraction, collection, ingestion, program>>

\* bulk_upsert_announcements caught a write error, logged it and returned 0.
scrape_upsert_failed(t) ==
    /\ task[t].tree.rows > 0
    /\ scrape_after_upsert(t, 0)

\* The routes but /stop, and the steps of the runs they start.
NextService(R, M, P) ==
    \/ start_scraper_conflict
    \/ \E t \in Tasks : start_scraper(t)
    \/ \E t \in Tasks : run_scraper_task_rejected(t)
    \/ \E t \in Tasks : run_scraper_task_logged(t)
    \/ \E t \in Tasks : Pc(t) = "queued" /\ \E m \in M, p \in P : run_scraper_task(t, m, p)
    \/ test_scraper_conflict
    \/ \E t \in Tasks, n \in M \ {None, 0} : test_scraper(t, n)
    \/ get_scraper_status
    \/ reset_scraper_state
    \/ \E t \in Tasks : Requesting(t) /\ \E r \in R : scrape_fetch_ok(t, r)
    \/ \E t \in Tasks : scrape_fetch_retry(t)
    \/ \E t \in Tasks : scrape_fetch_again(t)
    \/ \E t \in Tasks : scrape_initial_failed(t)
    \/ \E t \in Tasks : scrape_page_failed(t)
    \/ \E t \in Tasks : scrape_after_initial(t)
    \/ \E t \in Tasks : scrape_after_page(t)
    \/ \E t \in Tasks : Pc(t) = "ingest" /\ \E n \in 0..MaxRows : scrape_after_upsert(t, n)
    \/ \E t \in Tasks : scrape_upsert_failed(t)

\* Both programs; the operator of the service sends no /stop.
Next == NextCli(Responses, PagesArgs) \/ NextService(Responses, PagesArgs, StartArgs)

Spec == Init /\ [][Next]_vars

\* The service with every route, on a listing of pages without totalPages input.
ResponsesStop == {r \in Responses : r.total = None /\ r.token <= 1}

NextStop ==
    \/ NextService(ResponsesStop, {None, 1}, {default_start_page})
    \/ stop_scraper

InitStop == Init /\ program = "service"

SpecStop == InitStop /\ [][NextStop]_vars


\* ======================================================================
\* Ingestion: save_announcements of src/mongodb_utils.py and
\* AnnouncementService.bulk_upsert_announcements, each call one step on the
\* announcements collection.
\* ======================================================================
crawl_vars == <<program, state_file, task, is_running, current_status, hist>>

\* Paths of the "$set" document of bulk_upsert_announcements: the fields of
\* ann_data, to which updatedAt and createdAt have been added.
SetPaths == {"lienDeConsultation", "reference", "datePublication", "objet",
             "updatedAt", "createdAt"}

\* Paths of its "$setOnInsert" document.
SetOnInsertPaths == {"createdAt"}

\* save_announcements(announcements): a write error leaves it as an exception.
save_announcements(batch, reversed) ==
    /\ program = "cli"
    /\ ingestion.calls < MaxCalls
    /\ LET r == Ingest(collection, batch, reversed, FALSE, NoStamp)
       IN /\ collection' = r.docs
          /\ ingestion' = [calls |-> ingestion.calls + 1, batch |-> batch,
                           reversed |-> reversed,
                           outcome |-> r.outcome, raised |-> r.raised,
                           returned |-> IF r.raised THEN 0 ELSE r.inserted]
    /\ UNCHANGED <<crawl_vars, extraction>>

\* bulk_upsert_announcements(announcements): every exception is caught and 0
\* returned.
bulk_upsert_announcements(batch, reversed) ==
    /\ program = "service"
    /\ ingestion.calls < MaxCalls
    /\ LET r == Ingest(collection, batch, reversed,
                       ConflictingUpdate(SetPaths, SetOnInsertPaths),
                       ingestion.calls + 1)
       IN /\ collection' = r.docs
          /\ ingestion' = [calls |-> ingestion.calls + 1, batch |-> batch,
                           reversed |-> reversed,
                           outcome |-> r.outcome, raised |-> FALSE,
                           returned |-> IF r.raised THEN 0 ELSE r.inserted]
    /\ UNCHANGED <<crawl_vars, extraction>>

NextStore ==
    \/ \E batch \in Batches, reversed \in BOOLEAN : save_announcements(batch, reversed)
    \/ \E batch \in Batches, reversed \in BOOLEAN :
          bulk_upsert_announcements(batch, reversed)

SpecStore == Init /\ [][NextStore]_vars


\* ======================================================================
\* Extraction: each function of src/extraction.py called once on an input.
\* ======================================================================
store_vars == <<collection, ingestion>>

\* parse_date(date_str) is called.
call_parse_date(date_str) ==
    /\ extraction = NoExtraction
    /\ extraction' = [fn |-> "parse_date", arg |-> date_str,
                      result |-> parse_date(date_str)]
    /\ UNCHANGED <<crawl_vars, store_vars>>

\* normalize_popup_link(href) is called.
call_normalize_popup_link(href) ==
    /\ extraction = NoExtraction
    /\ extraction' = [fn |-> "normalize_popup_link", arg |-> href,
                      result |-> normalize_popup_link(href)]
    /\ UNCHANGED <<crawl_vars, store_vars>>

\* extract_announcement(row) is called.
call_extract_announcement(row) ==
    /\ extraction = NoExtraction
    /\ extraction' = [fn |-> "extract_announcement", arg |-> row,
                      result |-> extract_announcement(row)]
    /\ UNCHANGED <<crawl_vars, store_vars>>

\* extract_announcements_from_tree(tree) is called on a page with these rows.
call_extract_announcements_from_tree(rows) ==
    /\ extraction = NoExtraction
    /\ extraction' = [fn |-> "extract_announcements_from_tree", arg |-> rows,
                      result |-> extract_announcements_from_tree(rows)]
    /\ UNCHANGED <<crawl_vars, store_vars>>

NextExtract ==
    \/ \E date_str \in DateTexts : call_parse_date(date_str)
    \/ \E href \in Hrefs : call_normalize_popup_link(href)
    \/ \E row \in Rows : call_extract_announcement(row)
    \/ \E rows \in Pages : call_extract_announcements_from_tree(rows)

SpecExtract == Init /\ [][NextExtract]_vars

\* ======================================================================
\* Runs on a listing that ends: the pages past LastPage yield zero rows and
\* carry no totalPages input of their own.  Every step of a run is taken once
\* it can be: a fetch attempt returns, a sleep ends, a write completes.  The
\* page counter is capped by the guards of the fetch actions.
\* ======================================================================
LastPage == MaxPage - 1

\* The responses the server can give for a page of this listing.
Listing(page_num) ==
    {r \in Responses : r.token <= 1 /\ (page_num > LastPage => r.rows = 0)}

\* The stored position a run starts from lies in the part of the listing that
\* has rows.
StartsInListing == StateCurrentPage(state_file, default_start_page) <= LastPage

\* A run without page limit (max_pages and total_pages false) reads neither
\* `page` nor `pages_scraped` on its way round the loop, and the pages past
\* LastPage answer alike.  Such a run about to request a page past MaxPage is
\* represented by the run one page earlier in the tail, which behaves the same.
beyond_range ==
    /\ program = "cli"
    /\ Pc(CLI) = "loop_req"
    /\ task[CLI].page > MaxPage
    /\ ~Truthy(task[CLI].max_pages)
    /\ ~Truthy(task[CLI].total_pages)
    /\ task' = [task EXCEPT ![CLI].page = @ - 1, ![CLI].pages_scraped = @ - 1]
    /\ UNCHANGED <<extraction, collection, ingestion, program, state_file,
                   is_running, current_status, hist>>

\* One step of run(): from the call of fetch_page to the next.
StepRun ==
    \/ Requesting(CLI) /\ \E r \in Listing(FetchPageNum(CLI)) : fetch_page_ok(r)
    \/ fetch_page_retry
    \/ fetch_page_again
    \/ run_initial_failed
    \/ run_page_failed
    \/ run_after_initial
    \/ run_after_page
    \/ run_save_raised
    \/ run_after_save
    \/ beyond_range

\* One step of the scrape_pages coroutine t.
StepScrape(t) ==
    \/ Requesting(t) /\ \E r \in Listing(FetchPageNum(t)) : scrape_fetch_ok(t, r)
    \/ scrape_fetch_retry(t)
    \/ scrape_fetch_again(t)
    \/ scrape_initial_failed(t)
    \/ scrape_page_failed(t)
    \/ scrape_after_initial(t)
    \/ scrape_after_page(t)
    \/ Pc(t) = "ingest" /\ \E n \in 0..MaxRows : scrape_after_upsert(t, n)
    \/ scrape_upsert_failed(t)

\* The starts of both programs and the steps of the runs they start.
NextLive ==
    \/ StartsInListing /\ \E m \in PagesArgs : run(m)
    \/ \E t \in Tasks : start_scraper(t)
    \/ \E t \in Tasks : run_scraper_task_rejected(t)
    \/ \E t \in Tasks : run_scraper_task_logged(t)
    \/ StartsInListing /\ \E t \in Tasks, m \in PagesArgs : run_scraper_task(t, m, default_start_page)
    \/ reset_scraper_state
    \/ StepRun
    \/ \E t \in Tasks : StepScrape(t)

Fairness == WF_vars(StepRun) /\ \A t \in Tasks : WF_vars(StepScrape(t))

SpecLive == Init /\ [][NextLive]_vars /\ Fairness


\* ======================================================================
\* The state file as the dictionary the configuration and schedule routes
\* share with the crawl: load_state, an update of some keys, save_state.
\* ======================================================================
ConfigKeys == {"max_pages", "start_page", "delay_between_requests", "enabled"}
ScheduleKeys == {"next_scheduled_run", "schedule_interval_hours"}

\* state.update(entries); state[key] = value
Update(state, entries) ==
    [k \in DOMAIN state \cup DOMAIN entries |->
        IF k \in DOMAIN entries THEN entries[k] ELSE state[k]]

\* state.get(key, default)
Get(state, key, default) == IF key \in DOMAIN state THEN state[key] ELSE default

\* Request bodies of PUT /config, the rejected ones included.
ConfigBodies ==
    [maxPages : {None, 1}, startPage : {0, 1}, delayBetweenRequests : {0, 5},
     enabled : {FALSE}]

\* The validation of update_scraper_config lets the body through.
ValidConfig(config) ==
    /\ ~(Truthy(config.maxPages) /\ (config.maxPages < 1 \/ config.maxPages > 1000))
    /\ ~(config.startPage < 1)
    /\ ~(config.delayBetweenRequests < 1 \/ config.delayBetweenRequests > 60)

\* Interval arguments of POST /schedule, a rejected one included.
Intervals == {0, 24}

ValidInterval(interval_hours) == ~(interval_hours < 1 \/ interval_hours > 168)

\* GET /config: what the route returns on this state file.
get_scraper_config(state) ==
    [maxPages |-> Get(state, "max_pages", None),
     startPage |-> Get(state, "start_page", 1),
     delayBetweenRequests |-> Get(state, "delay_between_requests", 2),
     enabled |-> Get(state, "enabled", TRUE)]

\* PUT /config
update_scraper_config(config) ==
    /\ program = "service"
    /\ CanServe
    /\ ValidConfig(config)
    /\ state_file' = Update(state_file,
                            [max_pages |-> config.maxPages,
                             start_page |-> config.startPage,
                             delay_between_requests |-> config.delayBetweenRequests,
                             enabled |-> config.enabled])
    /\ UNCHANGED <<extraction, collection, ingestion, program, task, is_running,
                   current_status, hist>>

\* POST /schedule: ScraperService.schedule_scraping.  The next run is
\* interval_hours from now; the model keeps the offset.
schedule_scraper(interval_hours) ==
    /\ program = "service"
    /\ CanServe
    /\ ValidInterval(interval_hours)
    /\ current_status' = [current_status EXCEPT !.nextRun = interval_hours]
    /\ state_file' = Update(state_file,
                            [next_scheduled_run |-> interval_hours,
                             schedule_interval_hours |-> interval_hours])
    /\ UNCHANGED <<extraction, collection, ingestion, program, task, is_running, hist>>

\* The service with its configuration and schedule routes, on runs of one page.
NextConfig ==
    \/ NextService(ResponsesStop, {1}, {default_start_page})
    \/ \E config \in ConfigBodies : update_scraper_config(config)
    \/ \E interval_hours \in Intervals : schedule_scraper(interval_hours)

SpecConfig == InitStop /\ [][NextConfig]_vars


\* ======================================================================
\* Properties
\* ======================================================================

\* C1 (resume position).  A run that loaded current_page = k + 1 > 1 and was
\* started with the default start page issues no request for a page <= k, the
\* initial request included, and its first request of the loop is for page k + 1.
C1_ResumePosition ==
    \A t \in Tasks :
        LET h == hist[t] IN
        (h.loaded.current_page > 1 /\ h.loaded.start_page = default_start_page
            /\ h.req # NoRequest)
        => h.req.page >= h.loaded.current_page

\* C2 (resume token).  When the state file held a token, the first request of a
\* restarted run for page k + 1 > 1 carries that token.
C2_ResumeToken ==
    \A t \in Tasks :
        LET h == hist[t] IN
        (h.loaded.current_page > 1 /\ h.loaded.prado_state # NoToken
            /\ Pc(t) \in {"loop_req", "loop_backoff", "loop_sleep"}
            /\ h.req # NoRequest /\ h.req.page = h.loaded.current_page)
        => h.req.token = h.loaded.prado_state

\* A call that starts a crawl, made while the running flag is set.
StartWhileRunning ==
    /\ is_running
    /\ \/ start_scraper_conflict
       \/ test_scraper_conflict
       \/ \E t \in Tasks : run_scraper_task_rejected(t)
       \/ \E t \in Tasks : start_scraper(t)
       \/ \E t \in Tasks, m \in PagesArgs, p \in StartArgs : run_scraper_task(t, m, p)
       \/ \E t \in Tasks, n \in PagesArgs \ {None, 0} : test_scraper(t, n)

\* C3 (mutual exclusion of start).  A start made while is_running is true starts
\* no run and leaves the state file, the running flag, the status that
\* get_status reports, and the run in progress as they were.
C3_StartRejected ==
    [][StartWhileRunning =>
         /\ state_file' = state_file
         /\ is_running' = is_running
         /\ get_status(current_status', state_file') = get_status(current_status, state_file)
         /\ \A u \in Tasks : Crawling(u) => task'[u] = task[u]
         /\ \A u \in Tasks : Crawling(u)' => Crawling(u)]_vars

\* A queued start was rejected by scrape_pages while a run that has already
\* persisted a page is in progress.
C3_Witness ==
    \E t, u \in Tasks :
        /\ Pc(t) = "rejected"
        /\ Crawling(u) /\ task[u].pages_scraped > 0
        /\ is_running /\ current_status.isRunning
        /\ state_file.current_page > 1

\* C4 (one crawl at a time).  No two runs are inside the crawl loop together.
C4_OneCrawl == Cardinality({t \in Tasks : Crawling(t)}) <= 1

\* C5 (cancellation).  Once a stop has cleared the running flag, a run that has
\* finished a page does not go on to fetch another one.
C5_StopAtPageBoundary ==
    [][\A t \in Tasks :
         (~is_running /\ Pc(t) \in {"init_sleep", "loop_sleep", "ingest"})
         => task'[t].pc # "loop_req"]_vars

\* The page a run has fetched has no rows; before is the number of pages the
\* run has scraped so far.
ZeroRows(t) == Pc(t) \in {"loop_sleep", "ingest"} /\ task[t].tree.rows = 0

\* C6 (end of listing).  After a page without rows that follows a scraped page,
\* the run requests no further page and no error is recorded.
C6_EndOfListing ==
    [][\A t \in Tasks :
         (ZeroRows(t) /\ task[t].pages_scraped > 0)
         => /\ task'[t].pc # "loop_req"
            /\ current_status'.errors = current_status.errors]_vars

\* C7 (zero rows on the first page).  After a first page without rows the run
\* requests no further page, and when it returns a failure has been recorded.
C7_ZeroRowsFirstPage ==
    [][\A t \in Tasks :
         (ZeroRows(t) /\ task[t].pages_scraped = 0)
         => /\ task'[t].pc # "loop_req"
            /\ (program = "service" /\ task'[t].pc = "idle")
                 => current_status'.errors # current_status.errors]_vars

\* C8 (page-fatal failure).  When the fetch of page n has used up its attempts
\* and the run halts, the state file holds current_page = n and the token the
\* run carries.
C8_FailureKeepsState ==
    [][\A t \in Tasks :
         (Pc(t) = "loop_req" /\ task'[t].pc = "idle")
         => /\ state_file'.current_page = task[t].page
            /\ state_file'.prado_state = task[t].prado_state]_vars

\* C9 (persist after ingestion).  The state file comes to hold current_page =
\* n + 1 only by the step of a run in which the storage call for page n returns.
C9_PersistAfterIngestion ==
    [][\A n \in 1..(MaxPage + 1) :
         (state_file'.current_page = n + 1 /\ state_file.current_page # n + 1)
         => \E t \in Tasks : /\ Pc(t) = "ingest"
                             /\ task[t].page = n
                             /\ task'[t].pc # "ingest"]_vars

\* A run has stored page 1 and persisted current_page = 2 before going on.
C9_Witness ==
    \E t \in Tasks :
        /\ task[t].pages_scraped >= 1
        /\ task[t].page = 2 /\ state_file.current_page = 2
        /\ Pc(t) = "loop_req"

\* The request in flight for a page n > 1 carries the last token a response of
\* this run contained.
CarriesLastToken ==
    \A t \in Tasks :
        LET h == hist[t] IN
        (h.req # NoRequest /\ h.req.page > 1 /\ h.seen # NoToken)
        => h.req.token = h.seen

\* A response of the loop without token leaves the carried token as it was.
KeepsToken ==
    \A t \in Tasks :
        (Pc(t) = "loop_sleep" /\ task[t].tree.token = NoToken /\ task'[t].pc = "ingest")
        => task'[t].prado_state = task[t].prado_state

RetryLimit == IF program = "cli" THEN max_retries ELSE SCRAPER_MAX_RETRIES

\* No fetch is at an attempt beyond the limit.
AttemptsBounded == \A t \in Tasks : task[t].attempt <= RetryLimit

\* A fetch is left either with the page (the response of the attempt that
\* succeeded), for the next attempt, or, as a failure, after the last attempt
\* allowed, and then the run is over.
FailureAfterAllAttempts ==
    \A t \in Tasks :
        (Pc(t) \in {"init_req", "loop_req"}
            /\ task'[t].pc \notin {"init_req", "loop_req", "init_sleep", "loop_sleep",
                                   "init_backoff", "loop_backoff"})
        => /\ task[t].attempt = RetryLimit
           /\ task'[t].pc = "idle"

\* C11 (retry bound).  One fetch makes at most the configured number of
\* attempts, fails only after that many failed attempts, and the run then
\* fetches no later page.
C11_RetryBound == []AttemptsBounded /\ [][FailureAfterAllAttempts]_vars

\* A run of the service has ended on the failed fetch of page 2.
C11_Witness ==
    /\ program = "service"
    /\ current_status.errors = <<FetchError(2)>>
    /\ \A t \in Tasks : Pc(t) = "idle"

\* C12 (maximum page count).  A run given the maximum page count m, any integer
\* m >= 0, has processed at most m pages.
C12_MaxPages ==
    \A t \in Tasks :
        (Crawling(t) /\ task[t].max_pages # None)
        => task[t].pages_scraped <= task[t].max_pages

\* C13 (total page count).  Once the first page has reported T pages, the run
\* has no request in flight for a page beyond T.
C13_TotalPages ==
    \A t \in Tasks :
        (Truthy(task[t].total_pages) /\ hist[t].req # NoRequest)
        => hist[t].req.page <= task[t].total_pages

\* Pages the run t has processed once the step it is about to take is done.
PagesProcessed(t) == task[t].pages_scraped + (IF Pc(t) = "ingest" THEN 1 ELSE 0)

\* C19 (terminal status).  When scrape_pages returns, by any path, the status
\* holds the number of pages this run processed and the number of records it
\* ingested.
C19_TerminalStatus ==
    [][\A t \in Tasks :
         (program = "service" /\ Crawling(t) /\ ~Crawling(t)')
         => /\ current_status'.lastScrapedPages = PagesProcessed(t)
            /\ current_status'.totalAnnouncementsScraped >= task[t].total_announcements
            /\ current_status'.totalAnnouncementsScraped
                 <= task[t].total_announcements
                      + (IF Pc(t) = "ingest" THEN task[t].tree.rows ELSE 0)]_vars

\* The step of run t in which the storage write for its page fails.
StorageWriteFailed(t) ==
    \/ t = CLI /\ run_save_raised
    \/ scrape_upsert_failed(t)

\* C18 (storage errors).  When the storage write for page n fails, the failure
\* is added to the run's error list, the state for page n is persisted, and the
\* run goes on to page n + 1 unless a page limit stops it.
C18_StorageErrorSurfaced ==
    [][\A t \in Tasks :
         StorageWriteFailed(t)
         => /\ state_file'.current_page = task[t].page + 1
            /\ program = "service"
                 => Len(current_status'.errors) > Len(current_status.errors)
            /\ (~ReachedTotalPages(task[t].total_pages, task[t].page)
                  /\ ~ReachedMaxPages(task[t].max_pages, task[t].pages_scraped + 1))
                 => (task'[t].pc = "loop_req" /\ task'[t].page = task[t].page + 1)]_vars

\* The step is a call of the ingestion operation.
IngestStep == ingestion'.calls = ingestion.calls + 1

\* Every announcement of the batch has a usable identity key.
AllUsable(batch) == \A i \in DOMAIN batch : HasQuery(batch[i])

\* The documents without their updatedAt.
Content(docs) == [i \in DOMAIN docs |-> [docs[i] EXCEPT !.updatedAt = NoStamp]]

\* C14 (idempotent upsert).  Ingesting again the batch that was just ingested,
\* all of whose records have a usable identity key, with the operations taken
\* in the same order, leaves the number of documents and their content, apart
\* from updatedAt, as they were.
C14_IdempotentUpsert ==
    [][(IngestStep /\ ingestion.calls >= 1 /\ ingestion'.batch = ingestion.batch
          /\ ingestion'.reversed = ingestion.reversed
          /\ AllUsable(ingestion.batch))
       => Content(collection') = Content(collection)]_vars

\* Two records without link, each identified by its (reference, datePublication).
SentinelLinks(a, b) ==
    /\ ~HasLink(a) /\ ~HasLink(b)
    /\ HasReference(a) /\ HasReference(b)
    /\ <<a.reference, a.datePublication>> # <<b.reference, b.datePublication>>

\* The document at k is the one stored for the record a.
StoredAt(docs, k, a) ==
    /\ docs[k].reference = a.reference
    /\ docs[k].datePublication = a.datePublication

\* C15 (sentinel links).  After the ingestion of a batch with two records whose
\* link is "N/A" and whose (reference, datePublication) differ, both are stored
\* as separate documents, and neither write has failed.
C15_SentinelNotUnique ==
    [][IngestStep =>
         \A i, j \in DOMAIN ingestion'.batch :
            SentinelLinks(ingestion'.batch[i], ingestion'.batch[j])
            => /\ \E k, l \in DOMAIN collection' :
                     /\ k # l
                     /\ StoredAt(collection', k, ingestion'.batch[i])
                     /\ StoredAt(collection', l, ingestion'.batch[j])
               /\ ingestion'.outcome[i] # "failed"
               /\ ingestion'.outcome[j] # "failed"]_vars

\* C16 (timestamps on upsert).  bulk_upsert_announcements, for a record with a
\* usable key: a document already stored under the key keeps its createdAt and
\* gets updatedAt of this call; otherwise a document with both stamps exists
\* under the key afterwards.
C16_Timestamps ==
    [][(IngestStep /\ program = "service") =>
         \A i \in DOMAIN ingestion'.batch :
            LET a == ingestion'.batch[i]
                k == FirstMatch(collection, a)
            IN HasQuery(a) =>
                 IF k # 0
                 THEN /\ collection'[k].createdAt = collection[k].createdAt
                      /\ collection'[k].updatedAt = ingestion'.calls
                 ELSE \E l \in DOMAIN collection' :
                         /\ Matches(collection'[l], a)
                         /\ collection'[l].createdAt # NoStamp
                         /\ collection'[l].updatedAt # NoStamp]_vars

\* C17 (failure isolation).  When the write of one record of the batch fails,
\* every other record of the batch has still been written or tried, and the
\* call returns.
C17_FailureIsolation ==
    [][(IngestStep /\ Raised(ingestion'.outcome))
       => /\ \A i \in DOMAIN ingestion'.batch : ingestion'.outcome[i] # "skipped"
          /\ ~ingestion'.raised]_vars

\* C20 (result count).  The number an ingestion call returns is the number of
\* records that created a document plus the number that updated one.
C20_ResultCount ==
    [][(IngestStep /\ ~ingestion'.raised)
       => ingestion'.returned = Count(ingestion'.outcome, "created")
                                  + Count(ingestion'.outcome, "updated")]_vars

\* The step hands run t the tree of a successful attempt.
FetchSucceeds(t) ==
    /\ Requesting(t)
    /\ LET r == task'[t].tree
       IN r \in Responses /\ ((t = CLI /\ fetch_page_ok(r)) \/ scrape_fetch_ok(t, r))

\* The step is one of run t.
StepOf(t) == task'[t] # task[t] \/ hist'[t] # hist[t]

\* C21 (inter-request delay).  The step in which an attempt of a run succeeds
\* leaves the run in the inter-request sleep, and every step a run takes out of
\* an attempt leaves it in a sleep or ends the run: no attempt of a run follows
\* another without a wait between them.
C21_InterRequestDelay ==
    [][\A t \in Tasks :
         /\ FetchSucceeds(t) => task'[t].pc \in {"init_sleep", "loop_sleep"}
         /\ (Requesting(t) /\ StepOf(t)) => (Waiting(t)' \/ task'[t].pc = "idle")]_vars

\* A run is at its second attempt for page 2, after a successful fetch of page 1.
C21_Witness ==
    \E t \in Tasks :
        /\ Pc(t) = "loop_req" /\ task[t].attempt = 2
        /\ task[t].page = 2 /\ task[t].pages_scraped = 1

\* The leftmost match of the date pattern in the text parse_date was given.
Matched == extraction.arg[Search(extraction.arg, 1)]

\* The matched numbers, read day first, are a date of the calendar, and the
\* time, when one follows, is a time of the day.
ValidDayFirst(tok) ==
    /\ tok.b \in 1..12
    /\ tok.a \in 1..DaysInMonth(tok.b, tok.y)
    /\ tok.timed => (tok.h \in 0..23 /\ tok.m \in 0..59)

\* C25 (date parsing).  parse_date returns null for an empty text and for a
\* text without DD/MM/YYYY pattern; for the pattern it matches it returns the
\* timestamp of day D, month M, year Y, at HH:MM when a time follows and at
\* midnight otherwise, when these are a valid date and time, and null when they
\* are not.
C25_ParseDate ==
    extraction.fn = "parse_date" =>
        IF Search(extraction.arg, 1) = 0
        THEN extraction.result = NoDate
        ELSE IF ValidDayFirst(Matched)
        THEN extraction.result =
               [year |-> Matched.y, month |-> Matched.b, day |-> Matched.a,
                hour |-> IF Matched.timed THEN Matched.h ELSE 0,
                minute |-> IF Matched.timed THEN Matched.m ELSE 0]
        ELSE extraction.result = NoDate

\* parse_date has returned 13 February 2024, midnight, for a text "13/2/2024".
C25_Witness ==
    /\ extraction.fn = "parse_date"
    /\ extraction.result = [year |-> 2024, month |-> 2, day |-> 13, hour |-> 0, minute |-> 0]

\* An absolute URL: it begins with the scheme of a web address.
IsAbsolute(url) == startswith_http(url)

\* The href normalize_popup_link was given, without the blanks around it, and
\* the target it holds: what popUp('...') wraps, or the href itself.
GivenHref == strip(extraction.arg)
GivenTarget == IF SearchPopUp(GivenHref) # <<>> THEN SearchPopUp(GivenHref) ELSE GivenHref

\* C24 (consultation link).  For every href extract_announcement can select,
\* the link returned is the sentinel "N/A" or an absolute URL; an href that is
\* absolute already is returned unchanged, and a target starting with "/"
\* becomes origin + target.
C24_AbsoluteOrSentinel ==
    extraction.fn = "normalize_popup_link" =>
        /\ extraction.result = NAText \/ IsAbsolute(extraction.result)
        /\ IsAbsolute(GivenHref) => extraction.result = GivenHref
        /\ startswith(GivenTarget, "/") => extraction.result = BASE \o GivenTarget

\* The eleven fields of the extractor.
ExtractorFields ==
    {"procedure", "categorie", "datePublication", "reference", "objet",
     "acheteurPublic", "lots", "lieuExecution", "dateLimite", "piecesJointes",
     "lienDeConsultation"}

\* None of the four cells the extractor looks for is in the row.
NoMatchingCells(row) ==
    /\ row.cell_ref = <<>> /\ row.cell_intitule = <<>>
    /\ row.cell_lieu = <<>> /\ row.cell_dateend = <<>>

\* Every field has its default.
AllDefaults(ann) ==
    /\ \A k \in {"procedure", "categorie", "reference", "objet", "acheteurPublic",
                 "lieuExecution", "lienDeConsultation"} : ann[k] = NAText
    /\ ann.lots = <<"-">>
    /\ ann.datePublication = NoDate /\ ann.dateLimite = NoDate
    /\ ann.piecesJointes = <<>>

\* C23 (default completeness).  The record extract_announcement returns has
\* the eleven extractor fields, and for a row with no matching cells each of
\* them has its default.
C23_DefaultCompleteness ==
    extraction.fn = "extract_announcement" =>
        /\ DOMAIN extraction.result = ExtractorFields
        /\ NoMatchingCells(extraction.arg) => AllDefaults(extraction.result)

\* The rule of the claim: the extracted reference or objet is not the sentinel,
\* or the row holds a hidden consultation-reference input.
InclusionRule(row) ==
    \/ extract_announcement(row).reference # NAText
    \/ extract_announcement(row).objet # NAText
    \/ row.refCons # <<>>

\* The records of the rows of a page that satisfy the rule, in document order.
RuleRecords(rows) ==
    LET kept == SelectSeq(rows, InclusionRule)
    IN [i \in 1..Len(kept) |-> extract_announcement(kept[i])]

\* C22 (row inclusion).  Of a page whose rows all extract, the list returned
\* holds the record of a row if and only if its reference is non-sentinel, or
\* its objet is non-sentinel, or the row contains a hidden
\* consultation-reference input, and it holds them in document order.
C22_RowInclusion ==
    (/\ extraction.fn = "extract_announcements_from_tree"
     /\ \A i \in 1..Len(extraction.arg) : ~extraction.arg[i].raises)
    => extraction.result.announcements = RuleRecords(extraction.arg)

\* The rows of a page on which extract_announcement does not raise.
GoodRows(rows) == SelectSeq(rows, LAMBDA row : ~row.raises)

\* C26 (row error isolation).  The page-level extraction never raises, and the
\* list it returns is the one it returns for the page without the rows whose
\* extraction raised: those rows are skipped, every other row is treated as if
\* they were not there, in the original order.
C26_RowErrorIsolation ==
    extraction.fn = "extract_announcements_from_tree" =>
        /\ ~extraction.result.raised
        /\ extraction.result.announcements
             = extract_announcements_from_tree(GoodRows(extraction.arg)).announcements
        /\ Len(extraction.result.announcements) <= Len(GoodRows(extraction.arg))

\* A page whose first row raised and whose second row is in the list returned.
C26_Witness ==
    /\ extraction.fn = "extract_announcements_from_tree"
    /\ Len(extraction.arg) = 2
    /\ extraction.arg[1].raises /\ ~extraction.arg[2].raises
    /\ extraction.result.announcements = <<extract_announcement(extraction.arg[2])>>

\* C27 (termination).  On a listing that ends with pages yielding zero rows,
\* where every fetch attempt returns, every accepted run eventually terminates,
\* whatever its maximum page count and the total-page count of the server.
C27_Termination ==
    \A t \in Tasks : Crawling(t) ~> ~Crawling(t)

\* A run with a page limit in force, or one of the service, terminates.
Limited(t) ==
    \/ program = "service"
    \/ Truthy(task[t].max_pages)
    \/ Truthy(task[t].total_pages)

TerminatesWhenLimited ==
    \A t \in Tasks : (Crawling(t) /\ Pc(t) \notin {"init_req", "init_backoff", "init_sleep"} /\ Limited(t)) ~> ~Crawling(t)

TerminatesInService ==
    \A t \in Tasks : (program = "service" /\ Crawling(t)) ~> ~Crawling(t)

\* C28 (running flag matches reality).  In every state of the service,
\* is_running and current_status.isRunning are true exactly when a scrape_pages
\* crawl is in progress: accepted and not yet returned, whatever stop, status and
\* reset requests were served in between.
CrawlInProgress == \E t \in Tasks : Crawling(t)

C28_RunningFlag ==
    program = "service" =>
        /\ is_running <=> CrawlInProgress
        /\ current_status.isRunning <=> CrawlInProgress

\* C29 (crawl progress writes preserve stored configuration).  The step of a
\* crawl that persists its position after a page leaves the other keys of the
\* state file as they were: GET /config returns after it what it returned
\* before, and the schedule keys present before are present with the same value.
PersistsCrawlState(t) == Pc(t) = "ingest" /\ task'[t] # task[t]

C29_ConfigPreserved ==
    [][\A t \in Tasks : PersistsCrawlState(t) =>
          /\ get_scraper_config(state_file') = get_scraper_config(state_file)
          /\ \A k \in ScheduleKeys \cap DOMAIN state_file :
                k \in DOMAIN state_file' /\ state_file'[k] = state_file[k]]_vars

\* C30 (pages are walked once and in order).  Within one run the successful
\* fetches are for consecutive page numbers beginning at the run's start page:
\* the fetch that succeeds after k earlier successful fetches of the run is for
\* page start + k, so no page is fetched successfully twice in a run.
StartPage(t) == task[t].page - task[t].pages_scraped

\* Successful fetches of the run before the one it is in: the initial fetch
\* and one per page processed.
FetchesDone(t) == IF Pc(t) = "init_req" THEN 0 ELSE 1 + task[t].pages_scraped

C30_PagesInOrder ==
    [][\A t \in Tasks :
          FetchSucceeds(t) => FetchPageNum(t) = StartPage(t) + FetchesDone(t)]_vars

====
